---- MODULE Spec2Model ----
(***************************************************************************)
(* GPS broadcast server with target location support.                      *)
(*                                                                         *)
(* Model of Assets/Scripts/gps_pc.py (simulated source) and                *)
(* Assets/Scripts/gps_android.py (live source): the main thread            *)
(* (start_server), one daemon thread per accepted connection               *)
(* (handle_client) and the console daemon thread (handle_user_input), all  *)
(* sharing the module global target_location.                              *)
(*                                                                         *)
(* Numbers: float() is modelled on integer literals, so coordinates are    *)
(* integers.  The "timestamp" field of a packet is left out: no statement  *)
(* below depends on it.  Text is a sequence of one-character strings.      *)
(***************************************************************************)
EXTENDS Integers, Sequences, FiniteSets, TLC

(* ---------------------------------------------------------------- bounds *)
\* Number of connections the environment offers to accept().
MaxConns == 2
\* Longest coordinate line enumerated in ConsoleSpec.
MaxLineLen == 7

Conns == 1..MaxConns

(* ----------------------------------------------------------- values ---- *)
\* Python's None and a number, as comparable values.
None == <<>>
Num(x) == <<x>>

Variants == {"pc", "android"}

VARIABLES
    variant,          \* which script runs: "pc" or "android"
    srv,              \* position of the main thread in start_server
    listening,        \* the listening socket: "unbound", "listening", "closed"
    client,           \* start_server's local `client`: accepted, not yet handed to a thread (0: none)
    console,          \* position of handle_user_input: "off", "command", "coords", "parse"
    coords,           \* handle_user_input's local `coords` while it is parsed
    parts,            \* handle_user_input's local `parts` while it is parsed
    console_out,      \* the last diagnostic handle_user_input printed
    target_location,  \* the module global
    pc,               \* position of each handle_client thread
    conn,             \* each client socket: "none", "open", "closed"
    stack,            \* values of the dict display under evaluation in each thread
    gps_data,         \* handle_client's local `gps_data`
    client_socket,    \* handle_client's argument `client_socket`: the connection it holds (0: none)
    seen,             \* history: registry values current while the thread's packet read the registry
    stale,            \* history: packets sent since the last registry write that differ from the registry
    ever_set,         \* history: set_target_location has run
    send_failed,      \* history: a send on the thread's connection has raised
    sent_before       \* history, kept on request: the target fields of the thread's packet before

vars == <<variant, srv, listening, client, console, coords, parts, console_out,
          target_location, pc, conn, stack, gps_data, client_socket, seen, stale, ever_set,
          send_failed, sent_before>>

srvVars == <<srv, listening, client>>
consoleVars == <<console, coords, parts, console_out>>
sessionVars == <<pc, conn, stack, gps_data, client_socket>>
ghostVars == <<seen, stale, ever_set, send_failed, sent_before>>

(* ------------------------------------------------------ target registry *)
\* The value target_location is bound to at import and by clear_target_location.
UnsetTarget ==
    [latitude |-> None, longitude |-> None, altitude |-> Num(0), isSet |-> FALSE]

\* The dict set_target_location binds target_location to.
set_target_location(lat, lon, alt) ==
    [latitude |-> lat, longitude |-> lon, altitude |-> alt, isSet |-> TRUE]

\* A clear that only drops the coordinates and the flag.
ClearKeepingAltitude ==
    [target_location EXCEPT !.latitude = None, !.longitude = None, !.isSet = FALSE]

\* The dict clear_target_location binds target_location to.
clear_target_location == UnsetTarget

\* Threads that have read some but not all of the four target fields.
Reading(c) == pc[c] \in {"tlon", "talt", "tset"}

\* Rebinding the global (one STORE_GLOBAL), with the history it leaves.
WriteTarget(v) ==
    /\ target_location' = v
    /\ seen' = [c \in Conns |-> IF Reading(c) THEN seen[c] \cup {v} ELSE seen[c]]
    /\ stale' = [c \in Conns |-> 0]
    /\ ever_set' = (ever_set \/ v.isSet)
    /\ UNCHANGED <<send_failed, sent_before>>

(* ------------------------------------------------------------- text ---- *)
Whitespace == {" ", "\t"}
IsSpace(ch) == ch \in Whitespace

DigitVal ==
    ("0" :> 0) @@ ("1" :> 1) @@ ("2" :> 2) @@ ("3" :> 3) @@ ("4" :> 4) @@
    ("5" :> 5) @@ ("6" :> 6) @@ ("7" :> 7) @@ ("8" :> 8) @@ ("9" :> 9)
Digits == DOMAIN DigitVal

LowerMap ==
    ("Y" :> "y") @@ ("E" :> "e") @@ ("S" :> "s") @@ ("C" :> "c") @@ ("L" :> "l") @@
    ("A" :> "a") @@ ("R" :> "r") @@ ("H" :> "h") @@ ("P" :> "p") @@ ("X" :> "x")

\* str.lower()
Lower(s) == [i \in 1..Len(s) |-> IF s[i] \in DOMAIN LowerMap THEN LowerMap[s[i]] ELSE s[i]]

RECURSIVE LStrip(_)
LStrip(s) == IF s # <<>> /\ IsSpace(Head(s)) THEN LStrip(Tail(s)) ELSE s

RECURSIVE RStrip(_)
RStrip(s) ==
    IF s # <<>> /\ IsSpace(s[Len(s)]) THEN RStrip(SubSeq(s, 1, Len(s) - 1)) ELSE s

\* str.strip()
Strip(s) == RStrip(LStrip(s))

RECURSIVE SplitAcc(_, _, _)
SplitAcc(s, cur, acc) ==
    IF s = <<>>
    THEN IF cur = <<>> THEN acc ELSE Append(acc, cur)
    ELSE IF IsSpace(Head(s))
         THEN SplitAcc(Tail(s), <<>>, IF cur = <<>> THEN acc ELSE Append(acc, cur))
         ELSE SplitAcc(Tail(s), Append(cur, Head(s)), acc)

\* str.split() with no separator: runs of whitespace separate, no empty parts.
Split(s) == SplitAcc(s, <<>>, <<>>)

Unsigned(tok) == IF tok # <<>> /\ Head(tok) \in {"+", "-"} THEN Tail(tok) ELSE tok

\* Whether float(tok) returns (TRUE) or raises ValueError (FALSE), for a token made
\* of a sign, digits and the letters of the lines below (none spells nan or inf).
IsFloat(tok) ==
    /\ Unsigned(tok) # <<>>
    /\ \A i \in 1..Len(Unsigned(tok)) : Unsigned(tok)[i] \in Digits

RECURSIVE DigitsValue(_)
DigitsValue(s) ==
    IF s = <<>> THEN 0
    ELSE 10 * DigitsValue(SubSeq(s, 1, Len(s) - 1)) + DigitVal[s[Len(s)]]

\* float(tok), for a token float() accepts.
FloatOf(tok) ==
    IF tok # <<>> /\ Head(tok) = "-"
    THEN 0 - DigitsValue(Unsigned(tok))
    ELSE DigitsValue(Unsigned(tok))

(* ---------------------------------------------------------- console ---- *)
\* A line of text from a string literal's characters.
CmdY == <<"y">>
CmdYes == <<"y", "e", "s">>
CmdClear == <<"c", "l", "e", "a", "r">>
CmdHelp == <<"h", "e", "l", "p">>

\* Lines typed at the command prompt.
CommandLines ==
    { CmdY, <<"Y", "e", "S">>, CmdClear, <<"H", "E", "L", "P">>, <<" ", "y">>, <<>> }

\* Lines typed at the coordinate prompt while the sessions run.
SampleLines ==
    { <<" ", "1", " ", " ", "2", " ", "3">>,  \* " 1  2 3"
      <<"1">>,                                \* "1"
      <<"a", " ", "1">> }                     \* "a 1"

\* Characters of the coordinate lines enumerated exhaustively.
LineAlphabet == {"1", "a", " "}
AllLines == UNION { [1..n -> LineAlphabet] : n \in 0..MaxLineLen }

\* Lines typed at the coordinate prompt of the console alone: every line over the
\* alphabet, and the command words.
CoordinateLines == AllLines \cup {CmdY, CmdClear, CmdHelp, <<" ", "c", "l", "e", "a", "r">>}

\* The if/elif chain on `response`.
Dispatch(response) ==
    IF response \in {CmdY, CmdYes} THEN "yes"
    ELSE IF response = CmdClear THEN "clear"
    ELSE IF response = CmdHelp THEN "help"
    ELSE "unknown"

\* The altitude taken only from a line of more than three tokens.
ParseCoordsAltOffByOne(toks) ==
    IF Len(toks) >= 2
    THEN IF ~IsFloat(toks[1]) THEN [kind |-> "value"]
         ELSE IF ~IsFloat(toks[2]) THEN [kind |-> "value"]
         ELSE IF Len(toks) > 2 /\ ~IsFloat(toks[3]) THEN [kind |-> "value"]
         ELSE [kind |-> "set",
               lat |-> FloatOf(toks[1]),
               lon |-> FloatOf(toks[2]),
               alt |-> IF Len(toks) > 3 THEN FloatOf(toks[3]) ELSE 0]
    ELSE [kind |-> "format"]

\* Only two or three tokens accepted.
ParseCoordsStrictCount(toks) ==
    IF Len(toks) >= 2 /\ Len(toks) <= 3
    THEN IF ~IsFloat(toks[1]) THEN [kind |-> "value"]
         ELSE IF ~IsFloat(toks[2]) THEN [kind |-> "value"]
         ELSE IF Len(toks) > 2 /\ ~IsFloat(toks[3]) THEN [kind |-> "value"]
         ELSE [kind |-> "set",
               lat |-> FloatOf(toks[1]),
               lon |-> FloatOf(toks[2]),
               alt |-> IF Len(toks) > 2 THEN FloatOf(toks[3]) ELSE 0]
    ELSE [kind |-> "format"]

\* A third token float() rejects is dropped and the altitude defaults to 0.
ParseCoordsLenientAltitude(toks) ==
    IF Len(toks) >= 2
    THEN IF ~IsFloat(toks[1]) THEN [kind |-> "value"]
         ELSE IF ~IsFloat(toks[2]) THEN [kind |-> "value"]
         ELSE [kind |-> "set",
               lat |-> FloatOf(toks[1]),
               lon |-> FloatOf(toks[2]),
               alt |-> IF Len(toks) > 2 /\ IsFloat(toks[3]) THEN FloatOf(toks[3]) ELSE 0]
    ELSE [kind |-> "format"]

\* The body of the inner try on `parts`: what it does with the tokens.
ParseCoords(toks) ==
    IF Len(toks) >= 2
    THEN IF ~IsFloat(toks[1]) THEN [kind |-> "value"]
         ELSE IF ~IsFloat(toks[2]) THEN [kind |-> "value"]
         ELSE IF Len(toks) > 2 /\ ~IsFloat(toks[3]) THEN [kind |-> "value"]
         ELSE [kind |-> "set",
               lat |-> FloatOf(toks[1]),
               lon |-> FloatOf(toks[2]),
               alt |-> IF Len(toks) > 2 THEN FloatOf(toks[3]) ELSE 0]
    ELSE [kind |-> "format"]

Alive == srv \in {"init", "bound", "ready", "accept", "spawn"}

\* input() returns a command line; the chain runs up to the next input().
ReadCommand(line) ==
    /\ Alive
    /\ console = "command"
    /\ LET what == Dispatch(Lower(line)) IN
         /\ console' = IF what = "yes" THEN "coords" ELSE "command"
         /\ console_out' = CASE what = "yes" -> "prompt"
                             [] what = "clear" -> "cleared"
                             [] what = "help" -> "help"
                             [] OTHER -> "unknown"
         /\ IF what = "clear"
            THEN WriteTarget(clear_target_location)
            ELSE UNCHANGED <<target_location, ghostVars>>
    /\ UNCHANGED <<variant, srvVars, coords, parts, sessionVars>>

\* The word clear obeyed at the coordinate prompt too.
ReadCoordsOrCommand(line) ==
    /\ Alive
    /\ console = "coords"
    /\ IF Lower(Strip(line)) = CmdClear
       THEN /\ console' = "command"
            /\ console_out' = "cleared"
            /\ WriteTarget(clear_target_location)
            /\ UNCHANGED <<coords, parts>>
       ELSE /\ coords' = Strip(line)
            /\ parts' = Split(Strip(line))
            /\ console' = "parse"
            /\ UNCHANGED <<console_out, target_location, ghostVars>>
    /\ UNCHANGED <<variant, srvVars, sessionVars>>

\* input() returns the coordinate line; it is stripped and split.
ReadCoords(line) ==
    /\ Alive
    /\ console = "coords"
    /\ coords' = Strip(line)
    /\ parts' = Split(Strip(line))
    /\ console' = "parse"
    /\ UNCHANGED <<variant, srvVars, console_out, target_location, sessionVars, ghostVars>>

\* The length test, float and set_target_location, or one of the two diagnostics;
\* coords and parts are not read again before they are rebound.
ParseLine ==
    /\ Alive
    /\ console = "parse"
    /\ LET r == ParseCoords(parts) IN
         /\ console_out' = CASE r.kind = "set" -> "set"
                             [] r.kind = "format" -> "format"
                             [] OTHER -> "numeric"
         /\ IF r.kind = "set"
            THEN WriteTarget(set_target_location(Num(r.lat), Num(r.lon), Num(r.alt)))
            ELSE UNCHANGED <<target_location, ghostVars>>
    /\ console' = "command"
    /\ coords' = <<>>
    /\ parts' = <<>>
    /\ UNCHANGED <<variant, srvVars, sessionVars>>

\* An exception from input() leaving the while loop: the thread ends.
InputErrorEndsLoop ==
    /\ Alive
    /\ console \in {"command", "coords"}
    /\ console' = "ended"
    /\ console_out' = "error"
    /\ UNCHANGED <<variant, srvVars, coords, parts, target_location, sessionVars, ghostVars>>

\* input() raises (EOFError on a closed stdin): the outer handler prints and loops.
InputError ==
    /\ Alive
    /\ console \in {"command", "coords"}
    /\ console' = "command"
    /\ console_out' = "error"
    /\ UNCHANGED <<variant, srvVars, coords, parts, target_location, sessionVars, ghostVars>>

(* --------------------------------------------------------- sessions ---- *)
\* generate_random_gps: the corners of the ranges drawn from, times 100.
SimReadings ==
    { [latitude |-> Num(la), longitude |-> Num(lo), altitude |-> Num(50), valid |-> TRUE] :
        la \in {6330, 6350}, lo \in {1030} }

\* get_android_gps: a fix reported by termux-location.
LiveFix ==
    [latitude |-> Num(6341), longitude |-> Num(1040), altitude |-> Num(0), valid |-> TRUE]

\* get_android_gps: the fallback of its except branch.
Fallback ==
    [latitude |-> Num(0), longitude |-> Num(0), altitude |-> Num(0), valid |-> FALSE]

Readings(v) == IF v = "pc" THEN SimReadings ELSE {LiveFix, Fallback}

\* gps_data before the first packet of a thread is built.
NoData ==
    [latitude |-> None, longitude |-> None, altitude |-> None, valid |-> FALSE,
     targetLatitude |-> None, targetLongitude |-> None, targetAltitude |-> None,
     hasTarget |-> FALSE]

\* The target coordinates under each other's key.
MakePacketSwapped(st, has) ==
    [latitude |-> st[1].latitude, longitude |-> st[1].longitude,
     altitude |-> st[1].altitude, valid |-> st[1].valid,
     targetLatitude |-> st[3], targetLongitude |-> st[2], targetAltitude |-> st[4],
     hasTarget |-> has]

\* hasTarget false whatever the registry says.
MakePacketNeverTarget(st, has) ==
    [latitude |-> st[1].latitude, longitude |-> st[1].longitude,
     altitude |-> st[1].altitude, valid |-> st[1].valid,
     targetLatitude |-> st[2], targetLongitude |-> st[3], targetAltitude |-> st[4],
     hasTarget |-> FALSE]

\* The fallback dict built without the registry: an unset target.
MakePacketFallbackWithoutTarget(st, has) ==
    IF st[1].valid
    THEN [latitude |-> st[1].latitude, longitude |-> st[1].longitude,
          altitude |-> st[1].altitude, valid |-> st[1].valid,
          targetLatitude |-> st[2], targetLongitude |-> st[3], targetAltitude |-> st[4],
          hasTarget |-> has]
    ELSE [latitude |-> st[1].latitude, longitude |-> st[1].longitude,
          altitude |-> st[1].altitude, valid |-> st[1].valid,
          targetLatitude |-> None, targetLongitude |-> None, targetAltitude |-> Num(0),
          hasTarget |-> FALSE]

\* The dict built from the evaluated values.
MakePacket(st, has) ==
    [latitude |-> st[1].latitude, longitude |-> st[1].longitude,
     altitude |-> st[1].altitude, valid |-> st[1].valid,
     targetLatitude |-> st[2], targetLongitude |-> st[3], targetAltitude |-> st[4],
     hasTarget |-> has]

\* The four target fields of a packet, as a registry value.
TargetOf(p) ==
    [latitude |-> p.targetLatitude, longitude |-> p.targetLongitude,
     altitude |-> p.targetAltitude, isSet |-> p.hasTarget]

\* The loop calls the source: the location part of the dict is evaluated.
Poll(c) ==
    /\ Alive
    /\ pc[c] = "poll"
    /\ \E r \in Readings(variant) : stack' = [stack EXCEPT ![c] = <<r>>]
    /\ pc' = [pc EXCEPT ![c] = "tlat"]
    /\ seen' = [seen EXCEPT ![c] = {}]
    /\ UNCHANGED <<variant, srvVars, consoleVars, target_location, conn, gps_data,
                   client_socket, stale, ever_set, send_failed, sent_before>>

\* target_location["latitude"]
ReadLat(c) ==
    /\ Alive
    /\ pc[c] = "tlat"
    /\ stack' = [stack EXCEPT ![c] = Append(@, target_location.latitude)]
    /\ pc' = [pc EXCEPT ![c] = "tlon"]
    /\ seen' = [seen EXCEPT ![c] = {target_location}]
    /\ UNCHANGED <<variant, srvVars, consoleVars, target_location, conn, gps_data,
                   client_socket, stale, ever_set, send_failed, sent_before>>

\* target_location["longitude"]
ReadLon(c) ==
    /\ Alive
    /\ pc[c] = "tlon"
    /\ stack' = [stack EXCEPT ![c] = Append(@, target_location.longitude)]
    /\ pc' = [pc EXCEPT ![c] = "talt"]
    /\ UNCHANGED <<variant, srvVars, consoleVars, target_location, conn, gps_data,
                   client_socket, ghostVars>>

\* target_location["altitude"]
ReadAlt(c) ==
    /\ Alive
    /\ pc[c] = "talt"
    /\ stack' = [stack EXCEPT ![c] = Append(@, target_location.altitude)]
    /\ pc' = [pc EXCEPT ![c] = "tset"]
    /\ UNCHANGED <<variant, srvVars, consoleVars, target_location, conn, gps_data,
                   client_socket, ghostVars>>

\* target_location["isSet"]; the dict is built and bound to gps_data.
ReadSet(c) ==
    /\ Alive
    /\ pc[c] = "tset"
    /\ gps_data' = [gps_data EXCEPT ![c] = MakePacket(stack[c], target_location.isSet)]
    /\ stack' = [stack EXCEPT ![c] = <<>>]
    /\ pc' = [pc EXCEPT ![c] = "send"]
    /\ UNCHANGED <<variant, srvVars, consoleVars, target_location, conn, client_socket,
                   ghostVars>>

\* A failed send swallowed: the loop goes on.
AfterSendRetry(ok) == IF ok THEN "sleep" ELSE "poll"

\* Where the thread goes after json.dumps, encode and send.
AfterSend(ok) == IF ok THEN "sleep" ELSE "failed"

\* json.dumps, encode and client_socket.send: returns, or raises.
Send(c) ==
    /\ Alive
    /\ pc[c] = "send"
    /\ \E ok \in BOOLEAN :
         /\ pc' = [pc EXCEPT ![c] = AfterSend(ok)]
         /\ stale' = [stale EXCEPT ![c] =
                        IF ok /\ TargetOf(gps_data[c]) # target_location THEN @ + 1 ELSE @]
         /\ send_failed' = [send_failed EXCEPT ![c] = @ \/ ~ok]
    /\ UNCHANGED <<variant, srvVars, consoleVars, target_location, conn, stack, gps_data,
                   client_socket, seen, ever_set, sent_before>>

\* time.sleep returns; gps_data is not read again before it is rebound.
Wake(c) ==
    /\ Alive
    /\ pc[c] = "sleep"
    /\ pc' = [pc EXCEPT ![c] = "poll"]
    /\ gps_data' = [gps_data EXCEPT ![c] = NoData]
    /\ sent_before' = [sent_before EXCEPT ![c] =
                         IF @.kept THEN [kept |-> TRUE, any |-> TRUE, target |-> TargetOf(gps_data[c])]
                         ELSE @]
    /\ UNCHANGED <<variant, srvVars, consoleVars, target_location, conn, stack, client_socket,
                   seen, stale, ever_set, send_failed>>

\* A failing thread closing every client socket and ending every thread.
CloseAll(c) ==
    /\ Alive
    /\ pc[c] = "failed"
    /\ conn' = [d \in Conns |-> IF conn[d] = "open" THEN "closed" ELSE conn[d]]
    /\ pc' = [d \in Conns |-> IF pc[d] = "none" THEN "none" ELSE "closed"]
    /\ gps_data' = [d \in Conns |-> NoData]
    /\ stack' = [d \in Conns |-> <<>>]
    /\ UNCHANGED <<variant, srvVars, consoleVars, target_location, client_socket, ghostVars>>

\* An ending thread resetting the target on its way out.
CloseResettingTarget(c) ==
    /\ Alive
    /\ pc[c] = "failed"
    /\ conn' = [conn EXCEPT ![client_socket[c]] = "closed"]
    /\ pc' = [pc EXCEPT ![c] = "closed"]
    /\ gps_data' = [gps_data EXCEPT ![c] = NoData]
    /\ target_location' = UnsetTarget
    /\ UNCHANGED <<variant, srvVars, consoleVars, stack, client_socket, ghostVars>>

\* except: print; finally: client_socket.close(); the thread ends.
Close(c) ==
    /\ Alive
    /\ pc[c] = "failed"
    /\ conn' = [conn EXCEPT ![client_socket[c]] = "closed"]
    /\ pc' = [pc EXCEPT ![c] = "closed"]
    /\ gps_data' = [gps_data EXCEPT ![c] = NoData]
    /\ UNCHANGED <<variant, srvVars, consoleVars, target_location, stack, client_socket,
                   ghostVars>>

(* ------------------------------------------------------ main thread ---- *)
\* The console thread started before the socket is bound.
BindAfterConsole ==
    /\ srv = "init"
    /\ console' = "command"
    /\ \E ok \in BOOLEAN :
         IF ok THEN srv' = "bound" /\ listening' = "listening"
         ELSE srv' = "bind_failed" /\ UNCHANGED listening
    /\ UNCHANGED <<variant, client, coords, parts, console_out, target_location, sessionVars,
                   ghostVars>>

\* socket(), setsockopt, bind and listen: succeed, or bind raises.
Bind ==
    /\ srv = "init"
    /\ \E ok \in BOOLEAN :
         IF ok THEN srv' = "bound" /\ listening' = "listening"
         ELSE srv' = "bind_failed" /\ UNCHANGED listening
    /\ UNCHANGED <<variant, client, consoleVars, target_location, sessionVars, ghostVars>>

\* The address lookup (gethostbyname / ifconfig wlan0): returns, or raises.
Lookup ==
    /\ srv = "bound"
    /\ \E ok \in BOOLEAN : srv' = IF ok THEN "ready" ELSE "lookup_failed"
    /\ UNCHANGED <<variant, listening, client, consoleVars, target_location, sessionVars, ghostVars>>

\* input_thread.start()
StartConsole ==
    /\ srv = "ready"
    /\ srv' = "accept"
    /\ console' = "command"
    /\ UNCHANGED <<variant, listening, client, coords, parts, console_out, target_location,
                   sessionVars, ghostVars>>

\* The next connection the environment offers.
NextConn == CHOOSE c \in Conns : conn[c] = "none" /\ \A d \in Conns : d < c => conn[d] # "none"

\* accept() reached only once every thread started before has ended (a join).
AcceptAfterJoin ==
    /\ srv = "accept"
    /\ \A d \in Conns : pc[d] \in {"none", "closed"}
    /\ \E c \in Conns : conn[c] = "none"
    /\ client' = NextConn
    /\ conn' = [conn EXCEPT ![NextConn] = "open"]
    /\ srv' = "spawn"
    /\ UNCHANGED <<variant, listening, consoleVars, target_location, pc, stack, gps_data,
                   client_socket, ghostVars>>

\* server.accept() returns a connection.
Accept ==
    /\ srv = "accept"
    /\ \E c \in Conns : conn[c] = "none"
    /\ client' = NextConn
    /\ conn' = [conn EXCEPT ![NextConn] = "open"]
    /\ srv' = "spawn"
    /\ UNCHANGED <<variant, listening, consoleVars, target_location, pc, stack, gps_data,
                   client_socket, ghostVars>>

\* The main thread leaves start_server and the interpreter exits: the daemon
\* threads (sessions, console) end where they are, their sockets left as they are.
ProcessExit ==
    /\ pc' = [c \in Conns |-> IF pc[c] \in {"none", "closed"} THEN pc[c] ELSE "killed"]
    /\ console' = IF console = "off" THEN "off" ELSE "killed"
    /\ coords' = <<>>
    /\ parts' = <<>>
    /\ stack' = [c \in Conns |-> <<>>]
    /\ gps_data' = [c \in Conns |-> NoData]
    /\ seen' = [c \in Conns |-> {}]
    /\ stale' = [c \in Conns |-> 0]
    /\ UNCHANGED <<variant, client, console_out, target_location, conn, client_socket, ever_set,
                   send_failed, sent_before>>

\* server.accept() raises OSError: nothing catches it.
AcceptError ==
    /\ srv = "accept"
    /\ srv' = "accept_failed"
    /\ UNCHANGED listening
    /\ ProcessExit

\* The thread object the next Thread(...) call creates.
NextThread == CHOOSE t \in Conns : pc[t] = "none" /\ \A u \in Conns : u < t => pc[u] # "none"

\* Every thread handed the first connection accepted.
SpawnWithFirstSocket ==
    /\ srv = "spawn"
    /\ pc' = [pc EXCEPT ![NextThread] = "poll"]
    /\ client_socket' = [client_socket EXCEPT ![NextThread] = 1]
    /\ client' = 0
    /\ srv' = "accept"
    /\ UNCHANGED <<variant, listening, consoleVars, target_location, conn, stack, gps_data, ghostVars>>

\* Thread(target=handle_client, args=(client,)).start(); back to accept.
Spawn ==
    /\ srv = "spawn"
    /\ pc' = [pc EXCEPT ![NextThread] = "poll"]
    /\ client_socket' = [client_socket EXCEPT ![NextThread] = client]
    /\ client' = 0
    /\ srv' = "accept"
    /\ UNCHANGED <<variant, listening, consoleVars, target_location, conn, stack, gps_data, ghostVars>>

\* The handler runs only once every thread started has ended (a join).
InterruptAfterJoin ==
    /\ srv \in {"accept", "spawn"}
    /\ \A c \in Conns : pc[c] \in {"none", "closed"}
    /\ srv' = "shutdown"
    /\ listening' = "closed"
    /\ ProcessExit

\* KeyboardInterrupt inside the try: the handler closes the listening socket.
Interrupt ==
    /\ srv \in {"accept", "spawn"}
    /\ srv' = "shutdown"
    /\ listening' = "closed"
    /\ ProcessExit

\* KeyboardInterrupt before the try: nothing catches it.
InterruptStartup ==
    /\ srv \in {"init", "bound", "ready"}
    /\ srv' = "interrupted"
    /\ UNCHANGED listening
    /\ ProcessExit

(* ---------------------------------------------------- specifications ---- *)
\* No packet of the thread is remembered.
NotKept == [kept |-> FALSE, any |-> FALSE, target |-> UnsetTarget]

\* The thread's packets are remembered; it has sent none.
KeptNone == [kept |-> TRUE, any |-> FALSE, target |-> UnsetTarget]

\* The state when start_server is called, history apart.
Boot ==
    /\ variant \in Variants
    /\ srv = "init"
    /\ listening = "unbound"
    /\ client = 0
    /\ console = "off"
    /\ coords = <<>>
    /\ parts = <<>>
    /\ console_out = "none"
    /\ target_location = UnsetTarget
    /\ pc = [c \in Conns |-> "none"]
    /\ conn = [c \in Conns |-> "none"]
    /\ stack = [c \in Conns |-> <<>>]
    /\ gps_data = [c \in Conns |-> NoData]
    /\ client_socket = [c \in Conns |-> 0]
    /\ seen = [c \in Conns |-> {}]
    /\ stale = [c \in Conns |-> 0]
    /\ ever_set = FALSE
    /\ send_failed = [c \in Conns |-> FALSE]

Init == Boot /\ sent_before = [c \in Conns |-> NotKept]

Startup == Bind \/ Lookup \/ StartConsole \/ InterruptStartup

MainLoop == Accept \/ AcceptError \/ Spawn \/ Interrupt

start_server == Startup \/ MainLoop

generate_random_gps(c) == Poll(c) \/ ReadLat(c) \/ ReadLon(c) \/ ReadAlt(c) \/ ReadSet(c)

handle_client(c) == generate_random_gps(c) \/ Send(c) \/ Wake(c) \/ Close(c)

Command == console = "command" /\ \E line \in CommandLines : ReadCommand(line)

Coordinates == console = "coords" /\ \E line \in SampleLines : ReadCoords(line)

AllCoordinates == console = "coords" /\ \E line \in CoordinateLines : ReadCoords(line)

handle_user_input == Command \/ Coordinates \/ ParseLine \/ InputError

Next ==
    \/ start_server
    \/ \E c \in Conns : handle_client(c)
    \/ handle_user_input

Spec == Init /\ [][Next]_vars

\* The console alone, on every coordinate line up to MaxLineLen characters.
ConsoleNext ==
    \/ Startup
    \/ Command
    \/ AllCoordinates
    \/ ParseLine
    \/ InputError

ConsoleSpec == Init /\ [][ConsoleNext]_vars

\* The operator only sets and clears the target, with well-formed lines.
TargetCommand == console = "command" /\ \E line \in {CmdY, CmdClear} : ReadCommand(line)

TargetCoordinates ==
    console = "coords" /\ \E line \in {<<"1", " ", "2", " ", "3">>} : ReadCoords(line)

FairNext ==
    \/ start_server
    \/ \E c \in Conns : handle_client(c)
    \/ TargetCommand
    \/ TargetCoordinates
    \/ ParseLine

\* The operating system schedules every thread that can run.
FairSpec == Init /\ [][FairNext]_vars /\ \A c \in Conns : WF_vars(handle_client(c))

\* Coordinate lines of an operator who moves the waypoint one way only.
OrderLines ==
    { <<"1", " ", "1", " ", "1">>,                  \* "1 1 1"
      <<"1", "1", " ", "1", "1", " ", "1", "1">> }  \* "11 11 11"

\* The line names a latitude above the one set.
Rising(line) ==
    IF target_location.isSet
    THEN FloatOf(Split(Strip(line))[1]) > target_location.latitude[1]
    ELSE TRUE

OrderCommand == console = "command" /\ \E line \in {CmdY} : ReadCommand(line)

OrderCoordinates ==
    console = "coords" /\ \E line \in OrderLines : Rising(line) /\ ReadCoords(line)

OrderNext ==
    \/ Bind
    \/ Lookup
    \/ StartConsole
    \/ Accept
    \/ Spawn
    \/ \E c \in Conns : handle_client(c)
    \/ OrderCommand
    \/ OrderCoordinates
    \/ ParseLine

\* Every thread's packets are remembered from the start.
OrderInit == Boot /\ sent_before = [c \in Conns |-> KeptNone]

\* The server running while the operator sets waypoint after waypoint, each above the last.
OrderSpec == OrderInit /\ [][OrderNext]_vars

(* ------------------------------------------------------------ claims ---- *)
\* Number of whitespace-separated tokens of a line, counted at their first characters.
TokenCount(s) ==
    Cardinality({ i \in 1..Len(s) : ~IsSpace(s[i]) /\ (i = 1 \/ IsSpace(s[i - 1])) })

\* The parse step of the console: from the line read to the next command prompt.
ParseStep == console = "parse" /\ console' = "command"

\* The first n tokens are all accepted by float().
Numeric(n) == \A i \in 1..n : IsFloat(parts[i])

\* C2: once Set(lat, lon, alt) completes the registry holds exactly
\* {lat, lon, alt, isSet: true}, whatever it held before; a coordinate line of two
\* numeric tokens sets altitude 0, one of three numeric tokens sets the third token.
C2_SetStoresExactly ==
    [][ ParseStep =>
          /\ (TokenCount(coords) = 2 /\ Numeric(2)) =>
                /\ console_out' = "set"
                /\ target_location' =
                     [latitude |-> Num(FloatOf(parts[1])), longitude |-> Num(FloatOf(parts[2])),
                      altitude |-> Num(0), isSet |-> TRUE]
          /\ (TokenCount(coords) = 3 /\ Numeric(3)) =>
                /\ console_out' = "set"
                /\ target_location' =
                     [latitude |-> Num(FloatOf(parts[1])), longitude |-> Num(FloatOf(parts[2])),
                      altitude |-> Num(FloatOf(parts[3])), isSet |-> TRUE]
      ]_vars

\* C2 witness: the two-token line "11 1" has set the waypoint, with altitude 0.
C2_Witness ==
    /\ console_out = "set"
    /\ target_location =
         [latitude |-> Num(11), longitude |-> Num(1), altitude |-> Num(0), isSet |-> TRUE]

\* C3: once Clear completes the registry holds {absent, absent, 0, isSet: false},
\* whether it was unset or set before; no altitude of an earlier Set survives.
C3_ClearResets ==
    console_out = "cleared" =>
        target_location =
            [latitude |-> None, longitude |-> None, altitude |-> Num(0), isSet |-> FALSE]

\* C3 witness: Clear has completed after a Set.
C3_Witness == console_out = "cleared" /\ ever_set /\ ~target_location.isSet

\* C10 as stated: a line of fewer than 2 or more than 3 tokens is reported as a
\* format error and leaves the registry unchanged.
C10_WrongCountIsFormatError ==
    [][ (ParseStep /\ (TokenCount(coords) < 2 \/ TokenCount(coords) > 3)) =>
            (console_out' = "format" /\ target_location' = target_location) ]_vars

\* C10 amended: a line of fewer than 2 tokens is reported as a format error and
\* leaves the registry unchanged; a line of more than 3 tokens is no format error:
\* it is handled as its first three tokens are, the others ignored.
C10_TooFewIsFormatError ==
    [][ ParseStep =>
          /\ TokenCount(coords) < 2 =>
                (console_out' = "format" /\ target_location' = target_location)
          /\ (TokenCount(coords) > 3 /\ Numeric(3)) =>
                /\ console_out' = "set"
                /\ target_location' =
                     [latitude |-> Num(FloatOf(parts[1])), longitude |-> Num(FloatOf(parts[2])),
                      altitude |-> Num(FloatOf(parts[3])), isSet |-> TRUE]
          /\ (TokenCount(coords) > 3 /\ ~Numeric(3)) =>
                (console_out' = "numeric" /\ target_location' = target_location)
      ]_vars

\* C10 witness: a format error was reported while a waypoint was set, which is kept.
C10_Witness == console_out = "format" /\ console = "command" /\ target_location.isSet

\* A session thread inside its send loop.
Running(c) == pc[c] \in {"poll", "tlat", "tlon", "talt", "tset", "send", "sleep"}

\* A packet of thread c has just been written to its client.
Sent(c) == pc[c] = "sleep"

\* C1 as stated: the four target fields of every packet sent are those of one
\* registry value that was current while the packet read the registry.
C1_TargetFieldsFromOneValue ==
    \A c \in Conns : Sent(c) => TargetOf(gps_data[c]) \in seen[c]

\* C9 as stated: in every packet sent, hasTarget is false exactly when
\* targetLatitude and targetLongitude are both null.
C9_HasTargetIffCoordinates ==
    \A c \in Conns :
        Sent(c) =>
            /\ gps_data[c].hasTarget = FALSE <=>
                 (gps_data[c].targetLatitude = None /\ gps_data[c].targetLongitude = None)
            /\ gps_data[c].hasTarget = TRUE =>
                 (gps_data[c].targetLatitude # None /\ gps_data[c].targetLongitude # None)

\* C4: after the first failed send a thread is out of its loop for good: it sends
\* nothing more, its only step is to close its own connection, and it ends there.
C4_NoSendAfterFailure ==
    /\ [](\A c \in Conns : send_failed[c] => pc[c] \in {"failed", "closed", "killed"})
    /\ [](\A c \in Conns : pc[c] = "closed" => conn[c] = "closed")
    /\ [](\A c \in Conns : pc[c] = "failed" => conn[c] = "open" /\ ENABLED Close(c))
    /\ [][ \A c \in Conns :
             /\ send_failed[c] => (pc'[c] # "sleep" /\ pc'[c] # "send")
             /\ (pc[c] = "failed" /\ pc'[c] \notin {"failed", "killed"}) =>
                   (pc'[c] = "closed" /\ conn'[c] = "closed")
             /\ pc[c] = "closed" => pc'[c] = "closed" ]_vars

\* C4 witness: a thread has ended after a failed send, its connection closed.
C4_Witness == \E c \in Conns : pc[c] = "closed" /\ send_failed[c] /\ conn[c] = "closed"

\* A step of the console thread after it was started.
ConsoleStep ==
    /\ console # "off"
    /\ console' # "killed"
    /\ <<console, console_out, target_location>>' # <<console, console_out, target_location>>

\* C5: while the process lives, a thread leaves its loop only by a failed send on
\* its own connection; a thread failing or ending, a console step (Set, Clear,
\* input error) and a failed poll of the source change no other thread and no
\* socket but the failing thread's own, and every thread in its loop can step.
C5_SessionsIndependent ==
    /\ [](Alive => \A c \in Conns : Running(c) => ENABLED handle_client(c))
    /\ [][ Alive' =>
             /\ \A c \in Conns :
                  /\ (Running(c) /\ ~Running(c)') =>
                        (pc[c] = "send" /\ pc'[c] = "failed" /\ send_failed'[c])
                  /\ (pc'[c] # pc[c] /\ pc'[c] \in {"failed", "closed"}) =>
                        /\ \A d \in Conns \ {c} :
                             <<pc[d], conn[d], stack[d], gps_data[d]>>' =
                             <<pc[d], conn[d], stack[d], gps_data[d]>>
                        /\ <<srv, listening, client>>' = <<srv, listening, client>>
                  /\ (pc[c] = "poll" /\ pc'[c] = "tlat" /\ stack'[c] = <<Fallback>>) =>
                        /\ \A d \in Conns \ {c} :
                             <<pc[d], conn[d], stack[d], gps_data[d]>>' =
                             <<pc[d], conn[d], stack[d], gps_data[d]>>
                        /\ <<srv, listening, client>>' = <<srv, listening, client>>
             /\ ConsoleStep =>
                  /\ <<pc, conn, stack, gps_data>>' = <<pc, conn, stack, gps_data>>
                  /\ <<srv, listening, client>>' = <<srv, listening, client>> ]_vars

\* C5 witness: one thread has ended on a failed send, another is in its loop with
\* a packet just sent, and the server is accepting.
C5_Witness ==
    \E c, d \in Conns :
        /\ pc[c] = "closed" /\ send_failed[c]
        /\ Sent(d) /\ ~send_failed[d]
        /\ srv = "accept" /\ listening = "listening"

\* C6: the accept loop waits for no thread: whatever the threads do, accept() can
\* take the next connection, the accepted connection is handed to a new thread,
\* and the main thread is back at accept() with every other thread left alone.
C6_AcceptNeverBlocked ==
    /\ []((srv = "accept" /\ \E c \in Conns : conn[c] = "none") => ENABLED Accept)
    /\ [](srv = "spawn" => ENABLED Spawn)
    /\ [][ (srv = "spawn" /\ srv' # "spawn" /\ Alive') =>
             /\ srv' = "accept"
             /\ pc'[client] = "poll"
             /\ \A d \in Conns \ {client} : pc'[d] = pc[d] ]_vars

\* C6 witness: a connection was accepted while an earlier thread sat on a failed send.
C6_Witness == \E c \in Conns : pc[c] = "failed" /\ client # 0 /\ client # c

\* C7: a packet that read the registry after the last write carries the registry
\* value, so after a Set each thread sends at most one packet that differs from it.
C7_NewTargetInNextPacket ==
    \A c \in Conns :
        /\ (pc[c] \in {"send", "sleep"} /\ seen[c] = {target_location}) =>
              TargetOf(gps_data[c]) = target_location
        /\ stale[c] <= 1

\* C7 witness: after a Set a thread sent one packet with the old target, and has now
\* sent the new one.
C7_Witness ==
    \E c \in Conns :
        /\ Sent(c) /\ stale[c] = 1
        /\ target_location.isSet
        /\ TargetOf(gps_data[c]) = target_location

\* A Set has run and no Clear after it; thread c is in its loop.
TargetSetFor(c) == target_location.isSet /\ Running(c)

\* Thread c has sent a packet, read after the last write, with hasTarget true.
GotTarget(c) == Sent(c) /\ gps_data[c].hasTarget /\ seen[c] = {target_location}

\* C8: before the first Set every packet sent has hasTarget false; after a Set a
\* fairly scheduled thread whose sends succeed sends a packet with hasTarget true,
\* unless a Clear comes first.
C8_BothClientsSeeTarget ==
    /\ [](\A c \in Conns : (Sent(c) /\ ~ever_set) => gps_data[c].hasTarget = FALSE)
    /\ \A c \in Conns :
         TargetSetFor(c) ~> (GotTarget(c) \/ ~target_location.isSet \/ ~Running(c))

\* C8 witness: both clients have been sent a packet with hasTarget true.
C8_Witness == \A c \in Conns : GotTarget(c) /\ target_location.isSet

\* The tokens float() is applied to: the first three, or all when fewer.
Parsed == IF TokenCount(coords) > 3 THEN 3 ELSE TokenCount(coords)

\* C11: a coordinate line of two or more tokens whose latitude, longitude or
\* altitude token float() rejects (a third token too, after two numeric ones) is
\* reported as a parse error and changes no field of the registry; help and every
\* unknown command change no field of the registry either.
C11_RejectedInputKeepsRegistry ==
    [][ /\ (ParseStep /\ TokenCount(coords) >= 2 /\ ~Numeric(Parsed)) =>
              (console_out' = "numeric" /\ target_location' = target_location)
        /\ \A line \in CommandLines :
              (ReadCommand(line) /\ Lower(line) \notin {CmdY, CmdYes, CmdClear}) =>
                  (target_location' = target_location /\ console' = "command")
      ]_vars

\* C11 witness: a parse error was reported while a waypoint was set, which is kept.
C11_Witness == console_out = "numeric" /\ console = "command" /\ target_location.isSet

\* C12: while the process lives the console thread is always at one of its two
\* prompts or handling the line just read; every line and every exception from
\* input() brings it back to the command prompt, where y and clear can be entered
\* and clear is applied; no step of the console touches the main thread.
C12_ConsoleNeverExits ==
    /\ []((Alive /\ console # "off") => console \in {"command", "coords", "parse"})
    /\ []((Alive /\ console = "command") =>
            (ENABLED ReadCommand(CmdClear) /\ ENABLED ReadCommand(CmdY)))
    /\ []((Alive /\ console = "parse") => ENABLED ParseLine)
    /\ [][ /\ (console = "parse" /\ console' # "parse" /\ Alive') => console' = "command"
           /\ (console = "coords" /\ console' # "coords" /\ Alive') =>
                 console' \in {"parse", "command"}
           /\ InputError => (console' = "command" /\ target_location' = target_location)
           /\ ConsoleStep => (Alive' /\ <<srv, listening, client>>' = <<srv, listening, client>>)
           /\ (console_out \in {"error", "unknown", "format", "numeric"} /\ ReadCommand(CmdClear)) =>
                 target_location' = UnsetTarget ]_vars

\* C12 witness: input() raised while a waypoint was set; the console is at the
\* command prompt again.
C12_Witness == console_out = "error" /\ console = "command" /\ target_location.isSet /\ Alive

\* C13 as stated: every packet sent with valid false has latitude, longitude and
\* altitude 0, and its four target fields are those of one registry value that was
\* current while the packet read the registry.
C13_FallbackPacketReflectsRegistry ==
    \A c \in Conns :
        (Sent(c) /\ gps_data[c].valid = FALSE) =>
            /\ gps_data[c].latitude = Num(0)
            /\ gps_data[c].longitude = Num(0)
            /\ gps_data[c].altitude = Num(0)
            /\ TargetOf(gps_data[c]) \in seen[c]

\* The part of C13 the torn read leaves alone: a failed poll neither ends the thread
\* nor skips the send, and a packet with valid false has zero coordinates.
FallbackPacketStillSent ==
    \A c \in Conns :
        /\ (Running(c) /\ stack[c] # <<>> /\ stack[c][1] = Fallback) =>
              pc[c] \in {"tlat", "tlon", "talt", "tset"}
        /\ (pc[c] \in {"send", "sleep"} /\ gps_data[c].valid = FALSE) =>
              /\ gps_data[c].latitude = Num(0)
              /\ gps_data[c].longitude = Num(0)
              /\ gps_data[c].altitude = Num(0)
              /\ variant = "android"

\* C14 as stated: start_server ends only on a failed bind or on an interrupt.
C14_OnlyBindFailureOrInterruptStops ==
    srv \in {"init", "bound", "ready", "accept", "spawn", "bind_failed", "shutdown", "interrupted"}

\* A thread that has not ended by itself.
InFlight(c) == Running(c) \/ pc[c] = "failed"

\* C15: an interrupt can arrive whatever the threads are doing; it ends the accept
\* loop with the listening socket closed, the threads and the console ended where
\* they were and no client socket closed; nothing is accepted or spawned afterwards.
C15_InterruptStopsAccepting ==
    /\ [](srv \in {"accept", "spawn"} => ENABLED Interrupt)
    /\ [](srv = "shutdown" =>
            (listening = "closed" /\ ~ENABLED Accept /\ ~ENABLED Spawn /\ console = "killed"))
    /\ [][ /\ (srv \in {"accept", "spawn"} /\ srv' = "shutdown") =>
                 /\ listening' = "closed"
                 /\ conn' = conn
                 /\ \A c \in Conns : InFlight(c) => pc'[c] = "killed"
           /\ srv = "shutdown" => (srv' = "shutdown" /\ conn' = conn /\ pc' = pc) ]_vars

\* C15 witness: the server was shut down while a thread was in its loop and another
\* sat on a failed send; neither connection was closed.
C15_Witness ==
    /\ srv = "shutdown" /\ listening = "closed" /\ console = "killed"
    /\ \E c, d \in Conns :
         /\ pc[c] = "killed" /\ conn[client_socket[c]] = "open" /\ ~send_failed[c]
         /\ pc[d] = "killed" /\ conn[client_socket[d]] = "open" /\ send_failed[d]

\* C16: when bind raises, start_server is over: the console thread was never
\* started, nothing listens, no connection was accepted, no thread was started, and
\* nothing happens afterwards.
C16_BindFailureAborts ==
    /\ [](srv = "bind_failed" =>
            /\ console = "off" /\ listening = "unbound" /\ client = 0
            /\ \A c \in Conns : conn[c] = "none" /\ pc[c] = "none"
            /\ ~ENABLED Next)
    /\ [][srv # "bind_failed"]_vars

\* C16 witness: bind has raised.
C16_Witness == srv = "bind_failed" /\ console = "off" /\ console_out = "none"

\* The threads started with connection k as their client_socket.
Holders(k) == { t \in Conns : pc[t] # "none" /\ client_socket[t] = k }

\* C17 as stated: in every state each accepted connection has exactly one thread,
\* each thread one accepted connection, and a connection is closed exactly when
\* its thread has ended.
C17_EveryConnectionHasItsSession ==
    /\ \A k \in Conns : conn[k] # "none" => Cardinality(Holders(k)) = 1
    /\ \A t \in Conns :
         pc[t] # "none" =>
            /\ client_socket[t] \in Conns
            /\ conn[client_socket[t]] # "none"
            /\ conn[client_socket[t]] = "closed" <=> ~InFlight(t)

\* C17 amended: an accepted connection is held by the accept loop until its thread
\* is started (and for good when the interrupt comes first), and from then on by
\* exactly one thread; no two threads hold the same connection; a connection is
\* closed only by the thread holding it, in the step that ends that thread after a
\* failed send, and a thread ended by the exit of the process leaves it unclosed.
C17_ConnectionOwnedByItsSession ==
    /\ [](\A k \in Conns :
            conn[k] # "none" =>
                IF client = k THEN Holders(k) = {} /\ conn[k] = "open"
                ELSE Cardinality(Holders(k)) = 1)
    /\ [](\A t \in Conns :
            pc[t] # "none" =>
                /\ client_socket[t] \in Conns
                /\ conn[client_socket[t]] # "none"
                /\ conn[client_socket[t]] = "closed" <=> pc[t] = "closed"
                /\ \A u \in Conns \ {t} : pc[u] # "none" => client_socket[u] # client_socket[t])
    /\ [][ \A k \in Conns :
             conn'[k] # conn[k] =>
                \/ /\ conn[k] = "none" /\ conn'[k] = "open"
                   /\ srv = "accept" /\ srv' = "spawn" /\ client' = k
                \/ /\ conn[k] = "open" /\ conn'[k] = "closed"
                   /\ srv' = srv
                   /\ \E t \in Conns :
                        /\ client_socket[t] = k /\ pc[t] = "failed" /\ pc'[t] = "closed"
                        /\ \A u \in Conns \ {t} : pc'[u] = pc[u] ]_vars

\* C17 witness: the first thread has ended and closed its connection; the second
\* connection is accepted and its thread not started yet.
C17_Witness ==
    /\ srv = "spawn" /\ client = 2 /\ conn[2] = "open" /\ Holders(2) = {}
    /\ pc[1] = "closed" /\ client_socket[1] = 1 /\ conn[1] = "closed"

\* C18: a step that changes the registry is a step of the console, a clear at the
\* command prompt or a set at the end of a coordinate line, and changes nothing of
\* the threads, the sockets or the main thread; so polling, building and sending a
\* packet, a failing thread, accepting and shutting down leave the registry as it is.
C18_OnlyConsoleWritesRegistry ==
    [][ target_location' # target_location =>
          /\ \/ console = "command" /\ console_out' = "cleared" /\ target_location' = UnsetTarget
             \/ console = "parse" /\ console_out' = "set" /\ target_location'.isSet
          /\ <<pc, conn, stack, gps_data, client_socket>>' = <<pc, conn, stack, gps_data, client_socket>>
          /\ <<srv, listening, client>>' = <<srv, listening, client>>
      ]_vars

\* C18 witness: the waypoint set is still set after a thread failed and ended,
\* another ran, and the server was shut down.
C18_Witness ==
    /\ target_location.isSet /\ srv = "shutdown"
    /\ \E c, d \in Conns : pc[c] = "closed" /\ send_failed[c] /\ pc[d] = "killed"

\* The words the command prompt knows.
CommandWords == {CmdY, CmdYes, CmdClear, CmdHelp}

\* C19: y/yes leads to the coordinate prompt; the next line is taken as coordinates
\* whatever it says: no command is run on it, the words clear, help, y and yes are
\* reported as a format error with the registry unchanged; after that line the
\* console is at the command prompt.
C19_CoordinatePromptTakesOneLine ==
    /\ [](console = "coords" => \A line \in CommandLines : ~ENABLED ReadCommand(line))
    /\ [][ /\ \A line \in CommandLines :
                (ReadCommand(line) /\ Lower(line) \in {CmdY, CmdYes}) =>
                    (console' = "coords" /\ target_location' = target_location)
           /\ (console = "coords" /\ console' # "coords" /\ Alive') =>
                /\ target_location' = target_location
                /\ \/ console' = "parse" /\ console_out' = console_out
                   \/ console' = "command" /\ console_out' = "error"
           /\ (ParseStep /\ Lower(coords) \in CommandWords) =>
                (console_out' = "format" /\ target_location' = target_location)
           /\ (console = "parse" /\ console' # "parse" /\ Alive') =>
                (console' = "command" /\ console_out' \in {"set", "format", "numeric"})
         ]_vars

\* C19 witness: clear was typed at the coordinate prompt while a waypoint was set;
\* it was read as a coordinate line and the waypoint is still set.
C19_Witness == console = "parse" /\ coords = CmdClear /\ target_location.isSet

\* Where a field value stands in the writes of OrderSpec: unset, then each
\* waypoint above the last.
Level(v) == IF v = None THEN -1 ELSE v[1]
Flag(b) == IF b THEN 1 ELSE 0

\* Field by field, the target fields `new` come from no earlier write than `old`.
NotBefore(new, old) ==
    /\ Level(new.latitude) >= Level(old.latitude)
    /\ Level(new.longitude) >= Level(old.longitude)
    /\ Level(new.altitude) >= Level(old.altitude)
    /\ Flag(new.isSet) >= Flag(old.isSet)

\* The registry values OrderSpec writes.
FirstWaypoint == set_target_location(Num(1), Num(1), Num(1))
SecondWaypoint == set_target_location(Num(11), Num(11), Num(11))

\* C20: in each target field, a packet of a thread carries the value of no earlier
\* write than the packet the same thread sent before it.
C20_ViewNeverGoesBack ==
    \A c \in Conns :
        (Sent(c) /\ sent_before[c].any) =>
            NotBefore(TargetOf(gps_data[c]), sent_before[c].target)

\* C20 witness: a thread has sent the first waypoint and then the second, while
\* another thread is about to send a packet built before either was set.
C20_Witness ==
    \E c, d \in Conns :
        /\ Sent(c) /\ sent_before[c].any
        /\ sent_before[c].target = FirstWaypoint
        /\ TargetOf(gps_data[c]) = SecondWaypoint
        /\ pc[d] = "send" /\ TargetOf(gps_data[d]) = UnsetTarget

====
